---- MODULE Spec2Model ----
(***************************************************************************)
(* configmap-aggregator: a model of the reconciliation cycle.              *)
(*                                                                         *)
(*  - package aggregator (aggregator.go): Aggregator.Once mirrors the      *)
(*    config maps of the listed namespaces into a directory and calls a    *)
(*    webhook when it changed something.            specification Spec     *)
(*  - package main (the controller): createConfigMap / upsertConfigMap     *)
(*    fold the config maps into one target config map.                     *)
(*                                                  specification SpecUpsert*)
(*  - the composite key namespace_name_key as a pure function.             *)
(*                                                  specification SpecKey  *)
(*                                                                         *)
(* Strings are TLA+ strings; a path is the string the Go code builds.      *)
(***************************************************************************)
EXTENDS Integers, Sequences, FiniteSets, TLC

VARIABLES
    \* Aggregator fields set by New and its options
    outputDir, namespaces, webhook,
    \* whether calls to the outside (directory, files, cluster, webhook) may fail
    \* for reasons of their own
    faults,
    \* the world: the config maps in the cluster and the regular files on disk
    store, fs,
    \* Aggregator.Once: position and locals
    pc, existingFiles, changed, nsIdx, items, cur, pending, err,
    \* what the running cycle did (observation only)
    writes, removes, requests, notify, fsStart, afterClean, afterMissed, listed,
    \* the controller (package main): which main it is, the target config map in
    \* the cluster and the cluster's resource-version clock
    program, dest, clock,
    \* controller.process: position and locals
    rpc, rnsIdx, rdata, cm, existing, rerr,
    \* the calls the running cycle made to the destination store (observation only)
    built, creates, updates, rlisted,
    \* the composite key as a function: two triples and their keys
    t1, t2, key1, key2, kpc,
    \* the controller's main and its worker goroutine (runAggregator)
    run,
    \* aggregator.New: its arguments and what it returned
    nw

cfgVars  == <<outputDir, namespaces, webhook, faults>>
envVars  == <<store, fs>>
onceVars == <<pc, existingFiles, changed, nsIdx, items, cur, pending, err>>
obsVars  == <<writes, removes, requests, notify, fsStart, afterClean, afterMissed, listed>>
ctlVars  == <<program, dest, clock, rpc, rnsIdx, rdata, cm, existing, rerr, built, creates, updates, rlisted>>
keyVars  == <<t1, t2, key1, key2, kpc>>
auxVars  == <<run, nw>>
treeVars == <<outputDir, webhook, faults, fs, onceVars, obsVars>>
vars     == <<cfgVars, envVars, onceVars, obsVars, ctlVars, keyVars, auxVars>>

----------------------------------------------------------------------------
(* Strings and paths *)

\* a key that leaves the config map's name out
AggregateKeyNoName(ns, name, key) == ns \o "_" \o key

\* item.ObjectMeta.Namespace+"_"+item.ObjectMeta.Name+"_"+key
AggregateKey(ns, name, key) == ns \o "_" \o name \o "_" \o key

\* filepath.Join(dir, f) for a clean dir and a single-element f: Join cleans the
\* result, so Join(".", f) is f itself, Join("/", f) is "/f" and Join("/o", f)
\* is "/o/f".
Join(dir, f) ==
    IF dir = "." THEN f
    ELSE IF dir = "/" THEN dir \o f
    ELSE dir \o "/" \o f

\* The process's working directory.
Cwd == "/"

\* The location a path names: absolute paths as they are, relative ones
\* against the working directory.
Abs(p) ==
    IF p = "." THEN Cwd
    ELSE IF SubSeq(p, 1, 1) = "/" THEN p
    ELSE Cwd \o p

LastSlash(p) ==
    CHOOSE i \in 1..Len(p) :
        /\ SubSeq(p, i, i) = "/"
        /\ \A j \in (i+1)..Len(p) : SubSeq(p, j, j) # "/"

\* the directory holding the absolute path p, and p's last element
DirOf(p) == IF LastSlash(p) = 1 THEN "/" ELSE SubSeq(p, 1, LastSlash(p) - 1)
Base(p)  == SubSeq(p, LastSlash(p) + 1, Len(p))

----------------------------------------------------------------------------
(* The world the cycle runs in *)

Values == {"v1", "v2"}

\* Config maps as the lister returns them: ObjectMeta.Namespace, ObjectMeta.Name, Data.
cmA  == [ns |-> "p", name |-> "a",   data |-> ("k" :> "v1")]
cmA2 == [ns |-> "p", name |-> "a",   data |-> ("k" :> "v2")]
cmB  == [ns |-> "q", name |-> "b",   data |-> ("k" :> "v1" @@ "j" :> "v2")]
\* two config maps whose names and keys hold the delimiter and collide on p_a_b_c
cmC  == [ns |-> "p", name |-> "a_b", data |-> ("c" :> "v1")]
cmD  == [ns |-> "p", name |-> "a",   data |-> ("b_c" :> "v2")]
\* a config map with the identity of the controller's target
cmT  == [ns |-> "p", name |-> "t",   data |-> ("p_a_k" :> "v1")]
NoItem == [ns |-> "", name |-> "", data |-> <<>>]

\* The contents the cluster can have (the config maps matching the selector).
SourceSets == { <<>>, <<cmA>>, <<cmA2>>, <<cmA, cmB>>, <<cmC, cmD>>, <<cmT, cmA>> }

\* The namespace lists a.namespaces can hold; "" queries every namespace.
NamespaceLists == { <<"">>, <<"p", "q">>, <<"", "p">> }

OutputDirs == { ".", "/o" }
Webhooks   == { "", "http://hook" }

\* The directories on disk; they exist throughout.
Dirs == { "/", "/o" }

\* A file no config map produces.
StrayName == "x"

\* Two distinct (namespace, name, key) triples of st produce the same key.
Colliding(st) ==
    \E i, j \in 1..Len(st) : \E k1 \in DOMAIN st[i].data, k2 \in DOMAIN st[j].data :
        /\ <<st[i].ns, st[i].name, k1>> # <<st[j].ns, st[j].name, k2>>
        /\ AggregateKey(st[i].ns, st[i].name, k1) = AggregateKey(st[j].ns, st[j].name, k2)

\* kubernetes' ConfigMaps(namespace).List: the config maps of one namespace,
\* of every namespace for "".
List(st, n) == SelectSeq(st, LAMBDA item : n = "" \/ item.ns = n)

\* afero.ReadDir: the direct children of dir, files and directories
ReadDir(f, dir) ==
    {[name |-> Base(p), isDir |-> FALSE] : p \in {x \in DOMAIN f : DirOf(x) = Abs(dir)}}
    \cup
    {[name |-> Base(q), isDir |-> TRUE] : q \in {x \in Dirs : x # "/" /\ DirOf(x) = Abs(dir)}}

\* afero.WriteFile and Fs.Remove on the map of regular files
WriteFile(f, name, val) ==
    [p \in DOMAIN f \cup {Abs(name)} |-> IF p = Abs(name) THEN val ELSE f[p]]
Remove(f, name) == [p \in DOMAIN f \ {Abs(name)} |-> f[p]]

----------------------------------------------------------------------------
(* Aggregator.Once *)

\* existingFiles[f.Name()] = true for every entry that is not a directory
ExistingFiles(entries) == {e.name : e \in {x \in entries : ~x.isDir}}

\* name := filepath.Join(a.outputDir, namespace_name_key)
FileName(dir, item, key) == Join(dir, AggregateKey(item.ns, item.name, key))

\* the webhook method New sets; no option changes it
DefaultWebhookMethod == "POST"

\* http.NewRequest(a.webhookMethod, a.webhook, nil)
NewRequest(method, url) == [method |-> method, url |-> url, body |-> "nil"]

\* a notifier that forgets to look at changed
ShouldNotifyAlways(c, hook) == hook # ""

\* if changed && a.webhook != ""
ShouldNotify(c, hook) == c /\ hook # ""

\* errors.Wrapf(err, format, args...): nil when err is nil, otherwise the
\* formatted message, ": " and the cause
Wrapf(cause, msg) == IF cause = "" THEN "" ELSE msg \o ": " \o cause

\* the error a failed call to the outside brings back
Cause == "unavailable"

\* line 160: the message's %s is filled with the literal "", not with n
OnceListError(n) == Wrapf(Cause, "failed to list config maps for namespace " \o "")

\* how http.DefaultClient.Do can end: a response below 400, no response at all,
\* a response with a status of 400 or more
WebhookOutcomes(f) == IF f THEN {"ok", "transport", "status"} ELSE {"ok"}

\* lines 206-212: what Once returns after the request. At a status >= 400 the
\* err handed to Wrapf is the nil that Do returned.
NotifyError(outcome) ==
    IF outcome = "transport" THEN "webhook"
    ELSE IF outcome = "status" THEN Wrapf("", "webhook request receive unexpected status")
    ELSE ""

\* what Once returns when a file operation failed
IOErrors == {"read", "write", "remove"}

\* a return that records a file error and carries on to the webhook
ReturnAndGoOn(e) ==
    /\ pc' = IF e \in IOErrors THEN "notify" ELSE "done"
    /\ err' = e
    /\ existingFiles' = {}
    /\ nsIdx' = 1
    /\ items' = <<>>
    /\ cur' = NoItem
    /\ pending' = {}

\* Once returns: the locals go away, the result stays
Return(e) ==
    /\ pc' = "done"
    /\ err' = e
    /\ existingFiles' = {}
    /\ nsIdx' = 1
    /\ items' = <<>>
    /\ cur' = NoItem
    /\ pending' = {}

\* a config map that is not there, and no config map at all
Absent == [exists |-> FALSE, data |-> <<>>, labels |-> <<>>, annotations |-> <<>>, rv |-> 0]

\* the controller has not started
CtlIdle ==
    /\ program = "cmd"
    /\ dest = Absent
    /\ clock = 0
    /\ rpc = "idle"
    /\ rnsIdx = 1
    /\ rdata = <<>>
    /\ cm = Absent
    /\ existing = Absent
    /\ rerr = ""
    /\ built = Absent
    /\ creates = <<>>
    /\ updates = <<>>
    /\ rlisted = <<>>

\* no key has been asked for
KeyIdle ==
    /\ t1 = <<"", "", "">>
    /\ t2 = <<"", "", "">>
    /\ key1 = ""
    /\ key2 = ""
    /\ kpc = "idle"

\* New has run, Once has not
TreeIdle ==
    /\ fs = <<>>
    /\ pc = "idle"
    /\ existingFiles = {}
    /\ changed = FALSE
    /\ nsIdx = 1
    /\ items = <<>>
    /\ cur = NoItem
    /\ pending = {}
    /\ err = ""
    /\ writes = 0
    /\ removes = 0
    /\ requests = <<>>
    /\ notify = "none"
    /\ fsStart = <<>>
    /\ afterClean = FALSE
    /\ afterMissed = FALSE
    /\ listed = <<>>

\* main has not started, New has not been called
RunIdle == [main |-> "idle", worker |-> "none", wg |-> 0, done |-> FALSE, signal |-> FALSE,
            onetime |-> FALSE, cycles |-> 0, fails |-> 0, status |-> "running"]
NilAggregator == [nil |-> TRUE, webhookMethod |-> "", outputDir |-> "", webhook |-> "",
                  namespaces |-> <<>>, lister |-> FALSE, logger |-> FALSE, fs |-> FALSE]
NwIdle == [pc |-> "idle", options |-> <<>>, a |-> NilAggregator, err |-> ""]
AuxIdle ==
    /\ run = RunIdle
    /\ nw = NwIdle

Init ==
    /\ outputDir \in OutputDirs
    /\ namespaces \in NamespaceLists
    /\ webhook \in Webhooks
    /\ faults = TRUE
    /\ store \in SourceSets
    /\ TreeIdle
    /\ CtlIdle
    /\ KeyIdle
    /\ AuxIdle

\* lines 138-155: list the output directory, remember its regular files
OnceStart ==
    /\ pc \in {"idle", "done"}
    /\ afterClean' = (pc = "done" /\ err = "")
    /\ afterMissed' = (pc = "done" /\ notify \in {"transport", "status"})
    /\ fsStart' = fs
    /\ writes' = 0
    /\ removes' = 0
    /\ requests' = <<>>
    /\ notify' = "none"
    /\ changed' = FALSE
    /\ listed' = <<>>
    /\ \/ /\ faults
          /\ Return("readdir")
       \/ /\ existingFiles' = ExistingFiles(ReadDir(fs, outputDir))
          /\ pc' = "list"
          /\ err' = ""
          /\ nsIdx' = 1
          /\ items' = <<>>
          /\ cur' = NoItem
          /\ pending' = {}
    /\ UNCHANGED <<cfgVars, envVars, ctlVars, keyVars, auxVars>>

\* lines 157-161: the next namespace is listed, or the loop over namespaces ends
OnceList ==
    /\ pc = "list"
    /\ IF nsIdx > Len(namespaces)
       THEN /\ pc' = "cleanup"
            /\ UNCHANGED <<existingFiles, nsIdx, items, cur, pending, err, listed>>
       ELSE /\ listed' = Append(listed, namespaces[nsIdx])
            /\ \/ /\ faults
                  /\ Return(OnceListError(namespaces[nsIdx]))
               \/ /\ items' = List(store, namespaces[nsIdx])
                  /\ pc' = "items"
                  /\ UNCHANGED <<existingFiles, nsIdx, cur, pending, err>>
    /\ UNCHANGED <<cfgVars, envVars, changed, writes, removes, requests, notify, fsStart, afterClean, afterMissed, ctlVars, keyVars, auxVars>>

\* line 162: the next item of the list, or the next namespace
OnceItem ==
    /\ pc = "items"
    /\ IF items = <<>>
       THEN /\ nsIdx' = nsIdx + 1
            /\ pc' = "list"
            /\ UNCHANGED <<items, cur, pending>>
       ELSE /\ cur' = Head(items)
            /\ items' = Tail(items)
            /\ pending' = DOMAIN Head(items).data
            /\ pc' = "data"
            /\ UNCHANGED nsIdx
    /\ UNCHANGED <<cfgVars, envVars, existingFiles, changed, err, obsVars, ctlVars, keyVars, auxVars>>

\* lines 184-188: changed = true, then the file is written
WriteStep(name, val, tracked, rest) ==
    /\ changed' = TRUE
    /\ \/ /\ faults
          /\ Return("write")
          /\ UNCHANGED <<fs, writes>>
       \/ /\ fs' = WriteFile(fs, name, val)
          /\ writes' = writes + 1
          /\ existingFiles' = tracked
          /\ pending' = rest
          /\ UNCHANGED <<pc, nsIdx, items, cur, err>>

\* lines 164-189: one key of the item, in the map's iteration order (any order)
OnceData ==
    /\ pc = "data"
    /\ IF pending = {}
       THEN /\ pc' = "items"
            /\ UNCHANGED <<fs, existingFiles, changed, nsIdx, items, cur, pending, err, writes>>
       ELSE \E key \in pending :
            LET val  == cur.data[key]
                name == FileName(outputDir, cur, key)
                tracked == existingFiles \ {name}
                rest == pending \ {key}
            IN  IF name \in existingFiles
                THEN \/ /\ (faults \/ Abs(name) \notin DOMAIN fs)
                        /\ Return("read")
                        /\ UNCHANGED <<fs, changed, writes>>
                     \/ /\ Abs(name) \in DOMAIN fs
                        /\ IF fs[Abs(name)] = val
                           THEN /\ existingFiles' = tracked
                                /\ pending' = rest
                                /\ UNCHANGED <<fs, pc, changed, nsIdx, items, cur, err, writes>>
                           ELSE WriteStep(name, val, tracked, rest)
                ELSE WriteStep(name, val, tracked, rest)
    /\ UNCHANGED <<cfgVars, store, removes, requests, notify, fsStart, afterClean, afterMissed, listed, ctlVars, keyVars, auxVars>>

\* lines 193-199: what is left in existingFiles is removed, in any order
OnceCleanup ==
    /\ pc = "cleanup"
    /\ IF existingFiles = {}
       THEN /\ pc' = "notify"
            /\ UNCHANGED <<fs, existingFiles, changed, nsIdx, items, cur, pending, err, removes>>
       ELSE \E k \in existingFiles :
            \/ /\ (faults \/ Abs(k) \notin DOMAIN fs)
               /\ Return("remove")
               /\ UNCHANGED <<fs, changed, removes>>
            \/ /\ Abs(k) \in DOMAIN fs
               /\ fs' = Remove(fs, k)
               /\ removes' = removes + 1
               /\ changed' = TRUE
               /\ existingFiles' = existingFiles \ {k}
               /\ UNCHANGED <<pc, nsIdx, items, cur, pending, err>>
    /\ UNCHANGED <<cfgVars, store, writes, requests, notify, fsStart, afterClean, afterMissed, listed, ctlVars, keyVars, auxVars>>

\* lines 201-214: the webhook. A transport failure is returned; for a status
\* >= 400 the code returns errors.Wrapf(err, ...) with err == nil, which is nil.
OnceNotify ==
    /\ pc = "notify"
    /\ IF ShouldNotify(changed, webhook)
       THEN \E outcome \in WebhookOutcomes(faults) :
            /\ requests' = Append(requests, NewRequest(DefaultWebhookMethod, webhook))
            /\ notify' = outcome
            /\ Return(NotifyError(outcome))
       ELSE /\ Return("")
            /\ UNCHANGED <<requests, notify>>
    /\ UNCHANGED <<cfgVars, envVars, changed, writes, removes, fsStart, afterClean, afterMissed, listed, ctlVars, keyVars, auxVars>>

\* Between cycles the world moves: whatever a finished cycle observed is over.
Forget ==
    /\ pc' = "idle"
    /\ err' = ""
    /\ changed' = FALSE
    /\ writes' = 0
    /\ removes' = 0
    /\ requests' = <<>>
    /\ notify' = "none"
    /\ fsStart' = <<>>
    /\ listed' = <<>>
    /\ UNCHANGED <<existingFiles, nsIdx, items, cur, pending, afterClean, afterMissed>>

\* the config maps in the cluster change
SourceChange ==
    /\ pc \in {"idle", "done"}
    /\ store' \in SourceSets \ {store}
    /\ Forget
    /\ UNCHANGED <<cfgVars, fs, ctlVars, keyVars, auxVars>>

\* somebody else drops a file into one of the directories
ExternalWrite ==
    /\ pc \in {"idle", "done"}
    /\ \E d \in Dirs :
        /\ Abs(Join(d, StrayName)) \notin DOMAIN fs
        /\ fs' = WriteFile(fs, Join(d, StrayName), "v1")
    /\ Forget
    /\ UNCHANGED <<cfgVars, store, ctlVars, keyVars, auxVars>>

Next ==
    \/ OnceStart
    \/ OnceList
    \/ OnceItem
    \/ OnceData
    \/ OnceCleanup
    \/ OnceNotify
    \/ SourceChange
    \/ ExternalWrite

Spec == Init /\ [][Next]_vars

----------------------------------------------------------------------------
(* Cycle after cycle in a world that has come to rest *)

\* what earlier cycles and earlier visitors can have left on disk: any of these
\* files, in the working directory and in /o
LeftOvers == {"/x", "/o/x", "/p_a_k", "/o/p_a_k"}
CalmTrees == UNION {[paths -> {"v1"}] : paths \in SUBSET LeftOvers}

\* The sources no longer change, nobody else writes to the disk and no call
\* fails for reasons of its own.
InitCalm ==
    /\ outputDir \in OutputDirs
    /\ namespaces \in NamespaceLists
    /\ webhook \in Webhooks
    /\ faults = FALSE
    /\ store \in SourceSets
    /\ fs \in CalmTrees
    /\ pc = "idle"
    /\ existingFiles = {}
    /\ changed = FALSE
    /\ nsIdx = 1
    /\ items = <<>>
    /\ cur = NoItem
    /\ pending = {}
    /\ err = ""
    /\ writes = 0
    /\ removes = 0
    /\ requests = <<>>
    /\ notify = "none"
    /\ fsStart = <<>>
    /\ afterClean = FALSE
    /\ afterMissed = FALSE
    /\ listed = <<>>
    /\ CtlIdle
    /\ KeyIdle
    /\ AuxIdle

\* Run calls Once again and again
NextCalm ==
    \/ OnceStart
    \/ OnceList
    \/ OnceItem
    \/ OnceData
    \/ OnceCleanup
    \/ OnceNotify

SpecCalm == InitCalm /\ [][NextCalm]_vars /\ WF_vars(NextCalm)

----------------------------------------------------------------------------
(* Cycle after cycle while calls fail, until they stop failing *)

\* Calls may fail at first; the sources do not change and nobody else writes.
InitSettle ==
    /\ outputDir \in OutputDirs
    /\ namespaces \in NamespaceLists
    /\ webhook \in Webhooks
    /\ faults = TRUE
    /\ store \in SourceSets
    /\ fs \in CalmTrees
    /\ pc = "idle"
    /\ existingFiles = {}
    /\ changed = FALSE
    /\ nsIdx = 1
    /\ items = <<>>
    /\ cur = NoItem
    /\ pending = {}
    /\ err = ""
    /\ writes = 0
    /\ removes = 0
    /\ requests = <<>>
    /\ notify = "none"
    /\ fsStart = <<>>
    /\ afterClean = FALSE
    /\ afterMissed = FALSE
    /\ listed = <<>>
    /\ CtlIdle
    /\ KeyIdle
    /\ AuxIdle

\* from here on the directory, the files, the cluster and the webhook answer
FaultsStop ==
    /\ faults
    /\ faults' = FALSE
    /\ UNCHANGED <<outputDir, namespaces, webhook, envVars, onceVars, obsVars, ctlVars, keyVars, auxVars>>

NextSettle ==
    \/ NextCalm
    \/ FaultsStop

\* Once is called again and again, and the failures come to an end
SpecSettle == InitSettle /\ [][NextSettle]_vars /\ WF_vars(NextCalm) /\ WF_vars(FaultsStop)

----------------------------------------------------------------------------
(* The controller: createConfigMap and upsertConfigMap *)

\* bound of the model: the resource versions the cluster hands out
MaxRV == 4

\* the controller's arguments: target namespace and target name
TargetNamespace == "p"
TargetName == "t"

OwnerKey == "configmap-aggregator"
OwnerValue == "target"

\* The two mains of the repository: "cmd" compares before it updates, "root"
\* (main.go) updates whenever the target exists.
Programs == {"cmd", "root"}

\* m[k], "" when the map has no k
Lookup(m, k) == IF k \in DOMAIN m THEN m[k] ELSE ""

\* for k, v := range cm.Data { data[namespace_name_k] = v }
MergeItem(data, item) ==
    LET new == {AggregateKey(item.ns, item.name, k) : k \in DOMAIN item.data}
    IN  [n \in DOMAIN data \cup new |->
            IF n \in new
            THEN item.data[CHOOSE k \in DOMAIN item.data :
                               AggregateKey(item.ns, item.name, k) = n]
            ELSE data[n]]

\* a loop over list.Items that folds the target in like any other item
RECURSIVE MergeItemsWithTarget(_, _)
MergeItemsWithTarget(data, list) ==
    IF list = <<>> THEN data
    ELSE MergeItemsWithTarget(MergeItem(data, Head(list)), Tail(list))

\* the loop over list.Items: the target itself is skipped, a later item
\* overwrites an earlier one on the same key
RECURSIVE MergeItems(_, _)
MergeItems(data, list) ==
    IF list = <<>> THEN data
    ELSE IF Head(list).ns = TargetNamespace /\ Head(list).name = TargetName
         THEN MergeItems(data, Tail(list))
         ELSE MergeItems(MergeItem(data, Head(list)), Tail(list))

\* newConfigMap(namespace, name): a config map with empty maps
NewConfigMap == [exists |-> TRUE, data |-> <<>>, labels |-> <<>>, annotations |-> <<>>, rv |-> 0]

\* the tail of createConfigMap: cm.Data = data, the owner annotation is set
Candidate(data) ==
    [NewConfigMap EXCEPT !.data = data, !.annotations = (OwnerKey :> OwnerValue)]

\* a copy that keeps the candidate's value where both have the key
CopyOverKeepMine(mine, theirs) ==
    [k \in DOMAIN mine \cup DOMAIN theirs |-> IF k \in DOMAIN mine THEN mine[k] ELSE theirs[k]]

\* for k, v := range existing.Metadata.X { cm.Metadata.X[k] = v }
CopyOver(mine, theirs) ==
    [k \in DOMAIN mine \cup DOMAIN theirs |-> IF k \in DOMAIN theirs THEN theirs[k] ELSE mine[k]]

\* a copy that leaves the resource version behind
CopyMetadataNoVersion(c, e) ==
    [c EXCEPT !.annotations = CopyOver(c.annotations, e.annotations),
              !.labels = CopyOver(c.labels, e.labels)]

\* "copy labels, annotations, and version"
CopyMetadata(c, e) ==
    [c EXCEPT !.annotations = CopyOver(c.annotations, e.annotations),
              !.labels = CopyOver(c.labels, e.labels),
              !.rv = e.rv]

\* hashConfigMap: the hash of cm.Data printed with its keys sorted. The sorted
\* print lists every (key, value) once in an order the map's iteration order
\* does not decide; it is kept here as the set of the pairs.
hashConfigMap(c) == {<<k, c.data[k]>> : k \in DOMAIN c.data}

\* "true if they are the same"
compareConfigMaps(a, b) == hashConfigMap(a) = hashConfigMap(b)

\* an upsert that treats ErrNotExist like any other error
FetchBranchNoSentinel(geterr) == IF geterr # "" THEN "fail" ELSE "merge"

\* what upsertConfigMap does with the result of getConfigMap
FetchBranch(geterr) ==
    IF geterr = "ErrNotExist" THEN "create"
    ELSE IF geterr # "" THEN "fail"
    ELSE "merge"

\* whether upsertConfigMap goes on to updateConfigMap
NeedsUpdate(prog, e, c) == prog = "root" \/ ~compareConfigMaps(e, c)

\* The destination store. getConfigMap: the stored config map or ErrNotExist.
GetConfigMap == IF dest.exists THEN [err |-> "", cm |-> dest] ELSE [err |-> "ErrNotExist", cm |-> Absent]

\* The store gives every write the next resource version.
Stored(c) == [c EXCEPT !.rv = clock + 1]

\* createConfigMap on the store: it succeeds when no config map has the name,
\* and any call can fail
CreateOutcomes(d) == {"create"} \cup (IF d.exists THEN {} ELSE {""})

\* updateConfigMap on the store: it succeeds when the config map is there and c
\* carries its current resource version, is refused as stale when c carries
\* another one, and any call can fail
UpdateOutcomes(d, c) ==
    {"update"} \cup (IF ~d.exists THEN {} ELSE IF d.rv = c.rv THEN {""} ELSE {"stale"})

\* part_002 line 146: "failed to get config maps for %s %s", n, c.selector;
\* the selector is the empty default
CtlListError(n) == Wrapf(Cause, "failed to get config maps for " \o n \o " " \o "")

\* getConfigMaps(n, selector): the config maps of the namespace as the cluster
\* holds them. The target is one of them when it carries the selector's labels,
\* and then it is listed with the data it holds now.
GetConfigMaps(st, d, n) ==
    LET live(item) == IF item.ns = TargetNamespace /\ item.name = TargetName
                      THEN [item EXCEPT !.data = d.data]
                      ELSE item
        seen(item) == ~(item.ns = TargetNamespace /\ item.name = TargetName) \/ d.exists
        all == SelectSeq(List(st, n), seen)
    IN  [i \in 1..Len(all) |-> live(all[i])]

\* the controller's cycle ends
RReturn(e) ==
    /\ rpc' = "done"
    /\ rerr' = e
    /\ rnsIdx' = 1
    /\ rdata' = <<>>

InitUpsert ==
    /\ outputDir = "."
    /\ webhook = ""
    /\ faults = TRUE
    /\ namespaces \in NamespaceLists
    /\ store \in SourceSets
    /\ TreeIdle
    /\ KeyIdle
    /\ program \in Programs
    /\ dest = Absent
    /\ clock = 0
    /\ rpc = "idle"
    /\ rnsIdx = 1
    /\ rdata = <<>>
    /\ cm = Absent
    /\ existing = Absent
    /\ rerr = ""
    /\ built = Absent
    /\ creates = <<>>
    /\ updates = <<>>
    /\ rlisted = <<>>
    /\ AuxIdle

\* process starts: data := make(map[string]string)
ProcessStart ==
    /\ rpc \in {"idle", "done"}
    /\ rpc' = "collect"
    /\ rnsIdx' = 1
    /\ rdata' = <<>>
    /\ cm' = Absent
    /\ existing' = Absent
    /\ rerr' = ""
    /\ built' = Absent
    /\ creates' = <<>>
    /\ updates' = <<>>
    /\ rlisted' = <<>>
    /\ UNCHANGED <<cfgVars, store, treeVars, keyVars, auxVars, program, dest, clock>>

\* createConfigMap: one namespace is listed and folded in, or the candidate is built
CreateConfigMap ==
    /\ rpc = "collect"
    /\ IF rnsIdx > Len(namespaces)
       THEN /\ cm' = Candidate(rdata)
            /\ built' = Candidate(rdata)
            /\ rpc' = "get"
            /\ UNCHANGED <<rnsIdx, rdata, rerr, rlisted>>
       ELSE /\ rlisted' = Append(rlisted, namespaces[rnsIdx])
            /\ \/ /\ RReturn(CtlListError(namespaces[rnsIdx]))
                  /\ UNCHANGED <<cm, built>>
               \/ /\ rdata' = MergeItems(rdata, GetConfigMaps(store, dest, namespaces[rnsIdx]))
                  /\ rnsIdx' = rnsIdx + 1
                  /\ UNCHANGED <<rpc, cm, built, rerr>>
    /\ UNCHANGED <<cfgVars, store, treeVars, keyVars, auxVars, program, dest, clock, existing, creates, updates>>

\* upsertConfigMap, the fetch: ErrNotExist leads to create, another error is returned
UpsertGet ==
    /\ rpc = "get"
    /\ \E got \in {GetConfigMap, [err |-> "get", cm |-> Absent]} :
        LET branch == FetchBranch(got.err)
        IN  /\ existing' = got.cm
            /\ IF branch = "fail"
               THEN RReturn(got.err)
               ELSE /\ rpc' = branch
                    /\ UNCHANGED <<rnsIdx, rdata, rerr>>
    /\ UNCHANGED <<cfgVars, store, treeVars, keyVars, auxVars, program, dest, clock, cm, built, creates, updates, rlisted>>

\* return c.client.createConfigMap(cm)
UpsertCreate ==
    /\ rpc = "create"
    /\ creates' = Append(creates, cm)
    /\ \E out \in CreateOutcomes(dest) :
        IF out = ""
        THEN /\ clock < MaxRV
             /\ dest' = Stored(cm)
             /\ clock' = clock + 1
             /\ RReturn("")
        ELSE /\ RReturn(out)
             /\ UNCHANGED <<dest, clock>>
    /\ UNCHANGED <<cfgVars, store, treeVars, keyVars, auxVars, program, cm, existing, built, updates, rlisted>>

\* the metadata is copied, then the update is sent unless the data is the same
UpsertMerge ==
    /\ rpc = "merge"
    /\ cm' = CopyMetadata(cm, existing)
    /\ IF NeedsUpdate(program, existing, cm')
       THEN /\ updates' = Append(updates, cm')
            /\ \E out \in UpdateOutcomes(dest, cm') :
                IF out = ""
                THEN /\ clock < MaxRV
                     /\ dest' = Stored(cm')
                     /\ clock' = clock + 1
                     /\ RReturn("")
                ELSE /\ RReturn(out)
                     /\ UNCHANGED <<dest, clock>>
       ELSE /\ RReturn("")
            /\ UNCHANGED <<dest, clock, updates>>
    /\ UNCHANGED <<cfgVars, store, treeVars, keyVars, auxVars, program, existing, built, creates, rlisted>>

\* Between cycles the world moves: what the finished cycle saw is over.
CtlForget ==
    /\ rpc' = "idle"
    /\ rerr' = ""
    /\ cm' = Absent
    /\ existing' = Absent
    /\ built' = Absent
    /\ creates' = <<>>
    /\ updates' = <<>>
    /\ rlisted' = <<>>
    /\ UNCHANGED <<rnsIdx, rdata>>

\* the cycle's view of an outside write: between cycles it ends the observation,
\* during a cycle it leaves the cycle where it is
Outside ==
    IF rpc \in {"idle", "done"}
    THEN CtlForget
    ELSE UNCHANGED <<rpc, rnsIdx, rdata, cm, existing, rerr, built, creates, updates, rlisted>>

\* the config maps in the cluster change between two cycles
CtlSourceChange ==
    /\ rpc \in {"idle", "done"}
    /\ store' \in SourceSets \ {store}
    /\ CtlForget
    /\ UNCHANGED <<namespaces, treeVars, keyVars, auxVars, program, dest, clock>>

\* somebody else labels the target or takes over its owner annotation
ExternalEdit ==
    /\ dest.exists
    /\ clock < MaxRV
    /\ \/ /\ "team" \notin DOMAIN dest.labels
          /\ dest' = Stored([dest EXCEPT !.labels = ("team" :> "ops")])
       \/ /\ Lookup(dest.annotations, OwnerKey) # "other"
          /\ dest' = Stored([dest EXCEPT !.annotations = CopyOver(dest.annotations, OwnerKey :> "other")])
    /\ clock' = clock + 1
    /\ Outside
    /\ UNCHANGED <<cfgVars, store, treeVars, keyVars, auxVars, program>>

\* somebody else deletes the target
ExternalDelete ==
    /\ dest.exists
    /\ dest' = Absent
    /\ Outside
    /\ UNCHANGED <<cfgVars, store, treeVars, keyVars, auxVars, program, clock>>

\* somebody else creates the target, empty or holding what cmA produces
ExternalCreate ==
    /\ ~dest.exists
    /\ clock < MaxRV
    /\ \E d \in {<<>>, MergeItem(<<>>, cmA)} :
        dest' = Stored([NewConfigMap EXCEPT !.data = d])
    /\ clock' = clock + 1
    /\ Outside
    /\ UNCHANGED <<cfgVars, store, treeVars, keyVars, auxVars, program>>

NextUpsert ==
    \/ ProcessStart
    \/ CreateConfigMap
    \/ UpsertGet
    \/ UpsertCreate
    \/ UpsertMerge
    \/ CtlSourceChange
    \/ ExternalEdit
    \/ ExternalDelete
    \/ ExternalCreate

SpecUpsert == InitUpsert /\ [][NextUpsert]_vars

----------------------------------------------------------------------------
(* runAggregator: main, the worker goroutine and the shutdown signal *)

\* bound of the model: the cycles a run goes through
MaxCycles == 2

\* a worker that gives up when process returned an error
AfterProcessFatal(e) == IF e # "" THEN "returned" ELSE "select"

\* lines 86-88: the error of process is logged, then the worker goes to its select
AfterProcess(e) == "select"

\* lines 75-79: log.Fatal exits with status 1, os.Exit(0) with status 0
ExitStatus(e) == IF e # "" THEN "exit1" ELSE "exit0"

InitLoop ==
    /\ outputDir = "."
    /\ webhook = ""
    /\ faults = TRUE
    /\ namespaces \in NamespaceLists
    /\ store \in SourceSets
    /\ TreeIdle
    /\ CtlIdle
    /\ KeyIdle
    /\ run \in {[RunIdle EXCEPT !.onetime = o] : o \in BOOLEAN}
    /\ nw = NwIdle

\* everything but run
loopFrame == <<cfgVars, envVars, onceVars, obsVars, ctlVars, keyVars, nw>>

\* lines 74-84: one-time mode runs process in main; otherwise the goroutine is
\* started and main goes on to wait for a signal
MainStart ==
    /\ run.main = "idle"
    /\ run' = IF run.onetime
              THEN [run EXCEPT !.main = "onetime"]
              ELSE [run EXCEPT !.main = "signal", !.worker = "spawned"]
    /\ UNCHANGED loopFrame

\* line 85: wg.Add(1), the first statement of the goroutine
WgAdd ==
    /\ run.status = "running"
    /\ run.worker = "spawned"
    /\ run' = [run EXCEPT !.worker = "loop", !.wg = run.wg + 1]
    /\ UNCHANGED loopFrame

\* c.process() is running in the process that is still alive
CycleRuns ==
    /\ run.status = "running"
    /\ run.worker = "loop" \/ run.main = "onetime"

\* lines 75, 87: c.process() is called
LoopProcess ==
    /\ CycleRuns
    /\ rpc = "idle"
    /\ run.cycles < MaxCycles
    /\ ProcessStart

\* the steps of c.process()
LoopCycleStep ==
    /\ CycleRuns
    /\ CreateConfigMap \/ UpsertGet \/ UpsertCreate \/ UpsertMerge

\* lines 87-89: process has returned to the goroutine
LoopLog ==
    /\ run.status = "running"
    /\ run.worker = "loop"
    /\ rpc = "done"
    /\ run' = [run EXCEPT !.worker = AfterProcess(rerr),
                          !.cycles = run.cycles + 1,
                          !.fails = run.fails + (IF rerr # "" THEN 1 ELSE 0)]
    /\ UNCHANGED loopFrame

\* line 95: case <-time.After(syncInterval), the loop goes round
SelectTimer ==
    /\ run.status = "running"
    /\ run.worker = "select"
    /\ run' = [run EXCEPT !.worker = "loop"]
    /\ CtlForget
    /\ UNCHANGED <<cfgVars, envVars, onceVars, obsVars, keyVars, nw, program, dest, clock>>

\* lines 96-98: case <-done: wg.Done(), return
SelectDone ==
    /\ run.status = "running"
    /\ run.worker = "select"
    /\ run.done
    /\ run' = [run EXCEPT !.worker = "returned", !.wg = run.wg - 1]
    /\ UNCHANGED loopFrame

\* SIGINT or SIGTERM is sent to the process
Signal ==
    /\ run.status = "running"
    /\ run.main = "signal"
    /\ ~run.signal
    /\ run' = [run EXCEPT !.signal = TRUE]
    /\ UNCHANGED loopFrame

\* lines 106-108: <-signalChan, the log line, close(done)
MainClose ==
    /\ run.main = "signal"
    /\ run.signal
    /\ run' = [run EXCEPT !.main = "wait", !.done = TRUE]
    /\ UNCHANGED loopFrame

\* line 109: wg.Wait() returns when the counter is zero
MainWait ==
    /\ run.main = "wait"
    /\ run.wg = 0
    /\ run' = [run EXCEPT !.main = "exit"]
    /\ UNCHANGED loopFrame

\* line 110: os.Exit(0) ends the process, the goroutine with it
MainExit ==
    /\ run.main = "exit"
    /\ run' = [run EXCEPT !.main = "exited", !.status = ExitStatus("")]
    /\ UNCHANGED loopFrame

\* lines 75-78: process has returned to main in one-time mode
OnetimeExit ==
    /\ run.main = "onetime"
    /\ rpc = "done"
    /\ run' = [run EXCEPT !.main = "exited",
                          !.status = ExitStatus(rerr),
                          !.cycles = run.cycles + 1,
                          !.fails = run.fails + (IF rerr # "" THEN 1 ELSE 0)]
    /\ UNCHANGED loopFrame

NextLoop ==
    \/ MainStart
    \/ WgAdd
    \/ LoopProcess
    \/ LoopCycleStep
    \/ LoopLog
    \/ SelectTimer
    \/ SelectDone
    \/ Signal
    \/ MainClose
    \/ MainWait
    \/ MainExit
    \/ OnetimeExit

SpecLoop == InitLoop /\ [][NextLoop]_vars

----------------------------------------------------------------------------
(* aggregator.New and its options *)

\* bound of the model: the options one call of New is given
MaxOptions == 3

Letters == {"a", "b", "c", "d", "e", "f", "g", "h", "i", "j", "k", "l", "m", "n", "o", "p", "q",
            "r", "s", "t", "u", "v", "w", "x", "y", "z"}
SchemeMarks == {"0", "1", "2", "3", "4", "5", "6", "7", "8", "9", "+", "-", "."}

\* net/url getScheme: the letters, digits, + - . before the first ":" are the
\* scheme; a digit or mark in first place, or any other character before a
\* ":", means there is no scheme; a ":" in first place is an error
RECURSIVE GetScheme(_, _)
GetScheme(u, i) ==
    IF i > Len(u) THEN [scheme |-> "", rest |-> u, err |-> ""]
    ELSE LET c == SubSeq(u, i, i)
         IN  IF c \in Letters THEN GetScheme(u, i + 1)
             ELSE IF c \in SchemeMarks
                  THEN IF i = 1 THEN [scheme |-> "", rest |-> u, err |-> ""]
                       ELSE GetScheme(u, i + 1)
             ELSE IF c = ":"
                  THEN IF i = 1 THEN [scheme |-> "", rest |-> u, err |-> "missing protocol scheme"]
                       ELSE [scheme |-> SubSeq(u, 1, i - 1), rest |-> SubSeq(u, i + 1, Len(u)), err |-> ""]
             ELSE [scheme |-> "", rest |-> u, err |-> ""]

\* the part of s before its first "/" holds a ":"
ColonInFirstSegment(s) ==
    \E i \in 1..Len(s) :
        /\ SubSeq(s, i, i) = ":"
        /\ \A j \in 1..(i - 1) : SubSeq(s, j, j) # "/"

\* url.Parse(webhook): the error, "" for none. A string without a scheme that
\* does not start with "/" must not have a colon in its first path segment.
ParseError(u) ==
    LET g == GetScheme(u, 1)
    IN  IF g.err # "" THEN g.err
        ELSE IF Len(g.rest) > 0 /\ SubSeq(g.rest, 1, 1) = "/" THEN ""
        ELSE IF g.scheme # "" THEN ""
        ELSE IF ColonInFirstSegment(g.rest) THEN "first path segment in URL cannot contain colon"
        ELSE ""

\* the webhook URLs given to SetWebHook: none, the two of TestNew, a bare colon
URLs == {"", "https://somehost:9090/foo", "\\http:/invalid url", ":x"}

\* The options a caller passes: SetConfigMapLister (a lister or nil),
\* SetWebHook, SetNamespaces, SetOutputDir.
Options ==
    {[kind |-> "lister", arg |-> l] : l \in {"mock", "nil"}}
    \cup {[kind |-> "webhook", arg |-> u] : u \in URLs}
    \cup {[kind |-> "namespaces", arg |-> l] : l \in {<<>>, <<"p", "q">>}}
    \cup {[kind |-> "outputDir", arg |-> d] : d \in {"/o"}}

OptionLists == UNION {[1..n -> Options] : n \in 0..MaxOptions}

\* one OptionsFunc applied to a: the Aggregator after it and the error
ApplyOption(a, o) ==
    IF o.kind = "lister" THEN [a |-> [a EXCEPT !.lister = (o.arg # "nil")], err |-> ""]
    ELSE IF o.kind = "webhook"
         THEN IF ParseError(o.arg) # ""
              THEN [a |-> a, err |-> "failed to parse webhook: " \o ParseError(o.arg)]
              ELSE [a |-> [a EXCEPT !.webhook = o.arg], err |-> ""]
    ELSE IF o.kind = "namespaces" THEN [a |-> [a EXCEPT !.namespaces = o.arg], err |-> ""]
    ELSE [a |-> [a EXCEPT !.outputDir = o.arg], err |-> ""]

\* for _, f := range options: the first error ends the loop
RECURSIVE ApplyOptions(_, _)
ApplyOptions(a, opts) ==
    IF opts = <<>> THEN [a |-> a, err |-> ""]
    ELSE LET r == ApplyOption(a, Head(opts))
         IN  IF r.err # "" THEN [a |-> a, err |-> "failed to run options function: " \o r.err]
             ELSE ApplyOptions(r.a, Tail(opts))

\* NewLogger(): a logger, and no error
NewLogger == [ok |-> TRUE, err |-> ""]

\* a New that does not look at the lister
CheckListerLax(l) == ""

\* if a.lister == nil
CheckLister(l) == IF l THEN "" ELSE "no config map lister was set"

\* New(options...): the Aggregator it returns and the error
New(opts) ==
    LET start == [NilAggregator EXCEPT !.nil = FALSE, !.webhookMethod = DefaultWebhookMethod, !.outputDir = "."]
        r == ApplyOptions(start, opts)
        logged == [r.a EXCEPT !.logger = NewLogger.ok]
        named == IF Len(logged.namespaces) = 0 THEN [logged EXCEPT !.namespaces = <<"">>] ELSE logged
    IN  IF r.err # "" THEN [a |-> NilAggregator, err |-> r.err]
        ELSE IF NewLogger.err # "" THEN [a |-> NilAggregator, err |-> "failed to create logger: " \o NewLogger.err]
        ELSE IF CheckLister(logged.lister) # "" THEN [a |-> NilAggregator, err |-> CheckLister(logged.lister)]
        ELSE [a |-> [named EXCEPT !.fs = TRUE], err |-> ""]

InitNew ==
    /\ outputDir = "."
    /\ webhook = ""
    /\ faults = FALSE
    /\ namespaces = <<"">>
    /\ store = <<>>
    /\ TreeIdle
    /\ CtlIdle
    /\ KeyIdle
    /\ run = RunIdle
    /\ nw \in {[NwIdle EXCEPT !.options = o] : o \in OptionLists}

\* the caller calls New with its options
CallNew ==
    /\ nw.pc = "idle"
    /\ nw' = [nw EXCEPT !.pc = "done", !.a = New(nw.options).a, !.err = New(nw.options).err]
    /\ UNCHANGED <<cfgVars, envVars, onceVars, obsVars, ctlVars, keyVars, run>>

NextNew == CallNew

SpecNew == InitNew /\ [][NextNew]_vars

----------------------------------------------------------------------------
(* The composite key as a function *)

KeyNamespaces == {"p", "pa", "p_a", "default"}
KeyNames      == {"a", "b", "ab", "a_b", "item1"}
KeyKeys       == {"c", "bc", "b_c", "foo.txt"}
KeyTriples    == KeyNamespaces \X KeyNames \X KeyKeys

InitKey ==
    /\ outputDir = "."
    /\ webhook = ""
    /\ faults = FALSE
    /\ AuxIdle
    /\ namespaces = <<"">>
    /\ store = <<>>
    /\ TreeIdle
    /\ CtlIdle
    /\ t1 \in KeyTriples
    /\ t2 \in KeyTriples
    /\ key1 = ""
    /\ key2 = ""
    /\ kpc = "idle"

\* the key of each triple is built
BuildKeys ==
    /\ kpc = "idle"
    /\ key1' = AggregateKey(t1[1], t1[2], t1[3])
    /\ key2' = AggregateKey(t2[1], t2[2], t2[3])
    /\ kpc' = "done"
    /\ UNCHANGED <<cfgVars, envVars, onceVars, obsVars, ctlVars, auxVars, t1, t2>>

NextKey == BuildKeys

SpecKey == InitKey /\ [][NextKey]_vars

----------------------------------------------------------------------------
(* The file-tree cycle: what is checked of it *)

\* The (namespace, name, key, value) entries a cycle collects from the cluster.
Collected ==
    UNION { UNION { {<<List(store, namespaces[i])[j].ns,
                       List(store, namespaces[i])[j].name,
                       k,
                       List(store, namespaces[i])[j].data[k]>> :
                         k \in DOMAIN List(store, namespaces[i])[j].data} :
                    j \in 1..Len(List(store, namespaces[i])) } :
            i \in 1..Len(namespaces) }

\* The regular files directly under the output directory.
UnderRoot == {p \in DOMAIN fs : DirOf(p) = Abs(outputDir)}

\* The destination is exactly what the sources produce.
TreeMatches ==
    /\ {Base(p) : p \in UnderRoot} = {AggregateKey(t[1], t[2], t[3]) : t \in Collected}
    /\ \A p \in UnderRoot :
         \E t \in Collected : AggregateKey(t[1], t[2], t[3]) = Base(p) /\ fs[p] = t[4]

\* C1: after a cycle that returns no error the regular files directly under the
\* output directory are exactly the files namespace_name_key of the collected
\* entries, each holding its source value, whatever the directory held before.
C1_TreeCorrect == (pc = "done" /\ err = "") => TreeMatches

\* C2: a cycle that follows a cycle which returned no error, with the sources and
\* the directory untouched in between, writes nothing, removes nothing, leaves
\* changed false, sends no request and leaves every file as it was. (Stated for
\* sources whose keys do not collide.)
C2_SecondRunIdle ==
    (pc = "done" /\ afterClean /\ ~Colliding(store)) =>
        /\ writes = 0
        /\ removes = 0
        /\ ~changed
        /\ requests = <<>>
        /\ fs = fsStart

\* C3: in a cycle without a listing or file error, one POST request without body
\* goes to the webhook when a webhook is set and a file was written or removed,
\* and none otherwise; without a webhook no request is ever sent.
C3_NotifyIffChanged ==
    /\ (pc = "done" /\ err \in {"", "webhook"}) =>
          requests = IF webhook # "" /\ writes + removes > 0
                     THEN <<[method |-> "POST", url |-> webhook, body |-> "nil"]>>
                     ELSE <<>>
    /\ (webhook = "" => requests = <<>>)

\* C3 witness: a cycle with a webhook that removed a file and sent its one request.
C3_Witness ==
    /\ pc = "done"
    /\ err = ""
    /\ webhook # ""
    /\ removes > 0
    /\ Len(requests) = 1

\* C4: a cycle that follows a cycle whose notification failed, with the sources and
\* the directory untouched in between, leaves changed false and sends no request.
\* (Stated for sources whose keys do not collide.)
C4_NoRenotify ==
    (pc = "done" /\ afterMissed /\ ~Colliding(store)) =>
        /\ ~changed
        /\ requests = <<>>

----------------------------------------------------------------------------
(* The composite key: what is checked of it *)

\* s contains the delimiter character
HasDelim(s) == \E i \in 1..Len(s) : SubSeq(s, i, i) = "_"

DelimFree(t) == ~HasDelim(t[1]) /\ ~HasDelim(t[2]) /\ ~HasDelim(t[3])

\* key reads namespace, "_", name, "_", key from left to right
HasKeyFormat(key, t) ==
    /\ Len(key) = Len(t[1]) + Len(t[2]) + Len(t[3]) + 2
    /\ SubSeq(key, 1, Len(t[1])) = t[1]
    /\ SubSeq(key, Len(t[1]) + 1, Len(t[1]) + 1) = "_"
    /\ SubSeq(key, Len(t[1]) + 2, Len(t[1]) + 1 + Len(t[2])) = t[2]
    /\ SubSeq(key, Len(t[1]) + Len(t[2]) + 2, Len(t[1]) + Len(t[2]) + 2) = "_"
    /\ SubSeq(key, Len(t[1]) + Len(t[2]) + 3, Len(key)) = t[3]

----------------------------------------------------------------------------
(* The controller: what is checked of it *)

\* the entries the controller collects: the target's own are left out
CollectedCtl == {t \in Collected : ~(t[1] = TargetNamespace /\ t[2] = TargetName)}

\* d maps exactly the keys of the collected entries, each to a value of its source
IsAggregateSet(d) ==
    /\ DOMAIN d = {AggregateKey(t[1], t[2], t[3]) : t \in CollectedCtl}
    /\ \A n \in DOMAIN d :
         \E t \in CollectedCtl : AggregateKey(t[1], t[2], t[3]) = n /\ d[n] = t[4]

\* the namespaces a configuration can name
AllNamespaces == UNION {{l[i] : i \in 1..Len(l)} : l \in NamespaceLists}

\* e is what a cycle returns when a query of the source failed
IsListError(e) == \E n \in AllNamespaces : e \in {OnceListError(n), CtlListError(n)}

\* every entry of map m is in map n with the same value
KeptIn(m, n) == \A k \in DOMAIN m : Lookup(n, k) = m[k]

\* the step in which upsertConfigMap returns
UpsertReturns == rpc \in {"create", "merge"} /\ rpc' = "done"

\* C5: whatever upsertConfigMap does to an existing target, every label and every
\* annotation the target has keeps its value, and an update carries the resource
\* version that was read from the store.
C5_MetadataKept ==
    [][ (UpsertReturns /\ dest.exists) =>
           /\ dest'.exists
           /\ KeptIn(dest.labels, dest'.labels)
           /\ KeptIn(dest.annotations, dest'.annotations)
           /\ \A i \in 1..Len(updates') : updates'[i].rv = existing.rv ]_vars

\* C5 witness: an update went through on a target that somebody had labelled and
\* whose owner annotation somebody had changed.
C5_Witness ==
    /\ rpc = "done"
    /\ rerr = ""
    /\ Len(updates) = 1
    /\ Lookup(dest.labels, "team") = "ops"
    /\ Lookup(dest.annotations, OwnerKey) = "other"

\* C7: when the fetch reports not-found, create is called once with the candidate
\* as createConfigMap built it (the aggregate as data, the owner annotation, no
\* labels, no version), update is not called, and not-found is not the error
\* returned.
C7_CreateWhenAbsent ==
    (rpc = "done" /\ ~IsListError(rerr) /\ rerr # "get" /\ ~existing.exists) =>
        /\ creates = <<built>>
        /\ updates = <<>>
        /\ built.exists
        /\ IsAggregateSet(built.data)
        /\ built.annotations = (OwnerKey :> OwnerValue)
        /\ built.labels = <<>>
        /\ built.rv = 0
        /\ rerr \in {"", "create"}

\* C7 witness: the target was absent and has been created with data in it.
C7_Witness ==
    /\ rpc = "done"
    /\ rerr = ""
    /\ ~existing.exists
    /\ Len(creates) = 1
    /\ dest.exists
    /\ dest.data # <<>>

\* C8: when the target exists with the data the candidate has, neither create nor
\* update is called.
C8_NoWriteWhenEqual ==
    (rpc = "done" /\ ~IsListError(rerr) /\ rerr # "get" /\ existing.exists
        /\ existing.data = built.data) =>
        /\ creates = <<>>
        /\ updates = <<>>

\* C9: when the target exists with other data than the candidate's, update is
\* called once and create never, the update carries the resource version of the
\* fetch, and a target that was changed after the fetch stays as it is while the
\* cycle returns an error.
C9_UpdateWhenDifferent ==
    [][ (rpc = "merge" /\ rpc' = "done" /\ existing.data # cm.data) =>
           /\ Len(updates') = 1
           /\ creates' = <<>>
           /\ updates'[1].rv = existing.rv
           /\ (dest # existing => (dest' = dest /\ rerr' \in {"stale", "update"})) ]_vars

\* C9 witness: the target was changed between the fetch and the update, and the
\* one update was refused as stale.
C9_Witness ==
    /\ rpc = "done"
    /\ rerr = "stale"
    /\ Len(updates) = 1
    /\ existing.data # cm.data
    /\ dest # existing

\* C10: after a cycle without error the target carries the owner annotation with
\* the value target, whether it was absent before, present without the
\* annotation or present with it. (Stated for a target nobody touched between
\* the fetch and the end of a cycle that wrote nothing.)
C10_OwnerMarked ==
    (/\ rpc = "done"
     /\ rerr = ""
     /\ Lookup(existing.annotations, OwnerKey) \in {"", OwnerValue}
     /\ (creates = <<>> /\ updates = <<>>) => dest = existing) =>
        /\ dest.exists
        /\ Lookup(dest.annotations, OwnerKey) = OwnerValue

\* C14: once the sources stay as they are, nobody else touches the directory
\* and calls stop failing, repeated cycles bring the directory to exactly the
\* files of the collected entries, and from then on every cycle ends without
\* error and without a write or a remove. (Stated for sources in which no two
\* entries produce the same key.)
C14_Converges ==
    ~Colliding(store) =>
        <>[](pc = "done" => (err = "" /\ TreeMatches /\ writes = 0 /\ removes = 0))

\* C21: no applied change goes unnotified forever. With a webhook set, whenever
\* a cycle has written or removed a file, a request to the webhook is sent in
\* that cycle or in a later one, given that cycles keep running and calls stop
\* failing.
C21_ChangeIsNotified ==
    (webhook # "" /\ writes + removes > 0) ~> (requests # <<>>)

----------------------------------------------------------------------------
(* Failures: what is checked of both modes *)

\* the paths whose file differs between the trees f and g
Touched(f, g) ==
    {p \in DOMAIN f \cup DOMAIN g :
        (p \in DOMAIN f) # (p \in DOMAIN g) \/ (p \in DOMAIN f /\ p \in DOMAIN g /\ f[p] # g[p])}

\* C11: the destination never aggregates itself. Whatever the controller builds
\* in a cycle, and whatever it then sends to the destination store, maps exactly
\* the keys derived from the other config maps of the queried namespaces, the
\* target listed among them or not; so the data cannot grow from one cycle to
\* the next by folding the target's own keys back in.
C11_NoSelfAggregation ==
    built.exists =>
        /\ IsAggregateSet(built.data)
        /\ \A i \in 1..Len(creates) : creates[i].data = built.data
        /\ \A i \in 1..Len(updates) : updates[i].data = built.data

\* a cycle that found the target, holding data, among the listed config maps
C11_Witness ==
    /\ rpc = "done"
    /\ rerr = ""
    /\ built.exists
    /\ built.data # <<>>
    /\ existing.exists
    /\ existing.data = built.data
    /\ \E i \in 1..Len(store) : store[i].ns = TargetNamespace /\ store[i].name = TargetName
    /\ \E i \in 1..Len(rlisted) : rlisted[i] \in {"", TargetNamespace}

\* C12: when the webhook answers with a status of 400 or more, Once returns an
\* error.
C12_StatusIsError ==
    (pc = "done" /\ notify = "status") => err # ""

\* C13: a failed query of a namespace ends the file-tree cycle at once, no later
\* namespace is queried, and the returned error names the namespace whose query
\* failed.
C13_ListErrorNamesNamespace ==
    (pc = "done" /\ IsListError(err)) =>
        /\ listed # <<>>
        /\ listed = SubSeq(namespaces, 1, Len(listed))
        /\ err = Wrapf(Cause, "failed to list config maps for namespace " \o listed[Len(listed)])

\* C18: the first failing read, write or remove ends the file-tree cycle. Once
\* has returned the error, no request was sent, and the failing step itself
\* leaves every file as it was: what was written or removed before stays, and
\* nothing is read, written or removed after it.
C18_FirstFailureEndsCycle ==
    /\ [](err \in IOErrors => (pc = "done" /\ requests = <<>> /\ notify = "none"))
    /\ [][(err' \in IOErrors /\ pc # "done") =>
            (fs' = fs /\ writes' = writes /\ removes' = removes /\ pc' = "done")]_vars

\* a cycle with a webhook that failed on a file after it had changed the tree
C18_Witness ==
    /\ pc = "done"
    /\ err \in IOErrors
    /\ webhook # ""
    /\ changed
    /\ writes + removes > 0
    /\ Touched(fsStart, fs) # {}

\* C19: a file-tree cycle writes and removes only regular files directly inside
\* the output directory: every path whose file differs from the start of the
\* cycle lies directly under the output directory.
C19_OnlyUnderRoot ==
    pc # "idle" => \A p \in Touched(fsStart, fs) : DirOf(p) = Abs(outputDir)

\* C20: collection finishes before synchronization. A file-tree cycle that
\* ends on a failed query of a namespace has written and removed nothing: the
\* tree is as it was when the cycle started.
C20_ListFailureLeavesDestination ==
    (pc = "done" /\ IsListError(err)) =>
        (fs = fsStart /\ writes = 0 /\ removes = 0)

----------------------------------------------------------------------------
(* runAggregator: what is checked of it *)

\* a cycle has started and has not returned
CycleInProgress == rpc \notin {"idle", "done"}

\* C15: in continuous mode the shutdown signal is acted on only between cycles:
\* when the process has exited, no cycle that had started is left unfinished.
C15_CycleCompletes ==
    (~run.onetime /\ run.status # "running") => ~CycleInProgress

\* C16: an error ends only the current cycle. In continuous mode the worker
\* leaves its loop only after shutdown was requested, however many cycles
\* failed, and the process ends only through the shutdown path, with status 0.
\* In one-time mode no goroutine is started, the process ends after exactly one
\* cycle, with a failure status when that cycle returned an error and with
\* status 0 when it did not.
C16_ErrorEndsOnlyTheCycle ==
    /\ ~run.onetime =>
          /\ run.worker = "returned" => run.done
          /\ run.status # "running" => (run.signal /\ run.done /\ run.status = "exit0")
    /\ run.onetime =>
          /\ run.worker = "none"
          /\ run.status = "running" => run.cycles = 0
          /\ run.status # "running" =>
                /\ run.cycles = 1
                /\ rpc = "done"
                /\ run.status = (IF rerr # "" THEN "exit1" ELSE "exit0")

\* continuous mode: a cycle is running after an earlier cycle failed
C16_Witness ==
    /\ ~run.onetime
    /\ run.status = "running"
    /\ run.fails > 0
    /\ ~run.done
    /\ CycleInProgress

----------------------------------------------------------------------------
(* aggregator.New: what is checked of it *)

\* the argument of the last option of the kind, none when there is no such option
LastGiven(opts, kind, none) ==
    IF \E i \in 1..Len(opts) : opts[i].kind = kind
    THEN opts[CHOOSE i \in 1..Len(opts) :
                 /\ opts[i].kind = kind
                 /\ \A j \in (i + 1)..Len(opts) : opts[j].kind # kind].arg
    ELSE none

\* the URLs of the model that url.Parse refuses
Unparsable == {"\\http:/invalid url", ":x"}

\* one of the options fails
OptionFails(opts) == \E i \in 1..Len(opts) : opts[i].kind = "webhook" /\ opts[i].arg \in Unparsable

\* C17: New returns nil and an error when no lister is supplied or an option
\* fails (a webhook that does not parse); otherwise it returns an Aggregator
\* and no error, with webhook method POST, the output directory "." unless one
\* was set, and the single namespace "" when no namespaces were given.
C17_NewResult ==
    nw.pc = "done" =>
        IF OptionFails(nw.options) \/ LastGiven(nw.options, "lister", "nil") = "nil"
        THEN nw.a.nil /\ nw.err # ""
        ELSE /\ ~nw.a.nil
             /\ nw.err = ""
             /\ nw.a.lister
             /\ nw.a.webhookMethod = "POST"
             /\ nw.a.webhook = LastGiven(nw.options, "webhook", "")
             /\ nw.a.outputDir = LastGiven(nw.options, "outputDir", ".")
             /\ LastGiven(nw.options, "namespaces", <<>>) = <<>> => nw.a.namespaces = <<"">>
             /\ LastGiven(nw.options, "namespaces", <<>>) # <<>> =>
                    nw.a.namespaces = LastGiven(nw.options, "namespaces", <<>>)

\* New was given a lister and a webhook that parses, and nothing else
C17_Witness ==
    /\ nw.pc = "done"
    /\ nw.options = <<[kind |-> "lister", arg |-> "mock"],
                      [kind |-> "webhook", arg |-> "https://somehost:9090/foo"]>>
    /\ ~nw.a.nil
    /\ nw.a.namespaces = <<"">>
    /\ nw.a.outputDir = "."

====
